---- MODULE Spec2Model ----
(***************************************************************************)
(* TectonicDB client (src/src/tectonic.ts): one socket, one active-query   *)
(* slot, one send queue.  Callers are async functions (ping, bulkadd,      *)
(* bulkadd_into) that await cmd() step by step.                            *)
(*                                                                         *)
(* Scheduling is Node's: socket events and the start of a caller are       *)
(* macrotasks; the continuation of an `await` whose promise was settled    *)
(* by a handler runs as a microtask before the next macrotask.             *)
(***************************************************************************)
EXTENDS Integers, Sequences, FiniteSets, TLC

NCallers == 3
MaxRecords == 1
MaxPayloadLen == 258

\* the number of values of one byte of a Buffer
ByteValues == 256

Callers == 1..NCallers
MaxQueries == NCallers * (MaxRecords + 2)
QueryIds == 1..MaxQueries

VARIABLES
    initialized,      \* TectonicDB.initialized
    activeQuery,      \* TectonicDB.activeQuery: a query id, 0 for null
    socketSendQueue,  \* TectonicDB.socketSendQueue: sequence of query ids
    sock,             \* net.Socket: "connecting", "open", "destroyed", "closed"
    written,          \* socket.write calls so far, as query ids, in order
    submitted,        \* the SocketQuery objects built by cmd(), in call order
    received,         \* per data event: the query whose cb got the frame (0: none)
    lastData,         \* the buffer of the last data event, as byte values
    lastResponse,     \* the TectonicResponse decoded by the last data event
    errored,          \* the queries whose onError was invoked, in order
    pc,               \* per caller: "idle", "await", "resolved", "done", "failed"
    prog,             \* per caller: the command texts its async function issues
    nrec,             \* per caller: the length of its `updates` argument
    step,             \* per caller: how many of them it has submitted
    startedIdle,      \* per caller: it started on a connected, idle client
    writtenAtStart,   \* per caller: Len(written) when it started
    submittedAtStart  \* per caller: Len(submitted) when it started

vars == <<initialized, activeQuery, socketSendQueue, sock, written, submitted,
          received, lastData, lastResponse, errored, pc, prog, nrec, step,
          startedIdle, writtenAtStart, submittedAtStart>>

clientVars == <<initialized, activeQuery, socketSendQueue, written, submitted>>
callerVars == <<pc, prog, nrec, step, startedIdle, writtenAtStart, submittedAtStart>>

Range(s) == {s[i] : i \in DOMAIN s}

(***************************************************************************)
(* Command texts.  A text is <<verb, argument>>; a row's argument is the   *)
(* index of the record in the caller's update list.                        *)
(***************************************************************************)
Ping == <<"PING", 0>>
Ddaklub == <<"DDAKLUB", 0>>
Row(i) == <<"ROW", i>>

\* bulkadd(updates) with n updates
Bulkadd(n) ==
    <<<<"BULKADD", 0>>>> \o [i \in 1..n |-> Row(i)] \o <<Ddaklub>>

\* a bulkadd_into whose loop stops one update short
BulkaddIntoSkipsLast(n, db) ==
    <<<<"BULKADD INTO", db>>>>
        \o [i \in 1..(IF n > 0 THEN n - 1 ELSE 0) |-> Row(i)] \o <<Ddaklub>>

\* bulkadd_into(updates, db) with n updates
BulkaddInto(n, db) ==
    <<<<"BULKADD INTO", db>>>> \o [i \in 1..n |-> Row(i)] \o <<Ddaklub>>

IsOpener(m) == m[1] \in {"BULKADD", "BULKADD INTO"}

\* the async functions a caller may invoke, with n updates where they take any
Program(kind, n, c) ==
    CASE kind = "ping" -> <<Ping>>
      [] kind = "bulkadd" -> Bulkadd(n)
      [] kind = "bulkadd_into" -> BulkaddInto(n, c)

MessageOf(q) == submitted[q].message
CallerOf(q) == submitted[q].caller

\* the promise of query q is still pending
Pending(q) ==
    /\ \A k \in DOMAIN received : received[k] # q
    /\ q \notin Range(errored)

\* no await continuation is waiting in the microtask queue
NoMicrotask == \A c \in Callers : pc[c] # "resolved"

\* sendSocketMsg(msg)
SendSocketMsg(w, q) == Append(w, q)

\* a cmd() that queues while the socket is still connecting
SendsDirectlyWhenConnected(active, init) == active = 0 /\ init

\* cmd(): the test that sends the query directly instead of queueing it
SendsDirectly(active, init) == active = 0 \/ ~init

\* cmd(message) called by caller c
Cmd(c, message) ==
    LET q == Len(submitted) + 1
        query == [message |-> message, caller |-> c, early |-> ~initialized]
    IN /\ submitted' = Append(submitted, query)
       /\ IF SendsDirectly(activeQuery, initialized)
          THEN /\ activeQuery' = q
               /\ written' = SendSocketMsg(written, q)
               /\ UNCHANGED socketSendQueue
          ELSE /\ socketSendQueue' = Append(socketSendQueue, q)
               /\ UNCHANGED <<activeQuery, written>>
       /\ UNCHANGED initialized

Init ==
    /\ initialized = FALSE
    /\ activeQuery = 0
    /\ socketSendQueue = <<>>
    /\ sock = "connecting"
    /\ written = <<>>
    /\ submitted = <<>>
    /\ received = <<>>
    /\ lastData = <<>>
    /\ lastResponse = [success |-> FALSE, data |-> <<>>]
    /\ errored = <<>>
    /\ pc = [c \in Callers |-> "idle"]
    /\ prog = [c \in Callers |-> <<>>]
    /\ nrec = [c \in Callers |-> 0]
    /\ step = [c \in Callers |-> 0]
    /\ startedIdle = [c \in Callers |-> FALSE]
    /\ writtenAtStart = [c \in Callers |-> 0]
    /\ submittedAtStart = [c \in Callers |-> 0]

\* the client is connected and idle: nothing active, queued or in flight
Idle ==
    /\ initialized
    /\ sock = "open"
    /\ activeQuery = 0
    /\ socketSendQueue = <<>>
    /\ Len(received) = Len(written)

\* a caller invokes ping / bulkadd / bulkadd_into: runs up to its first await.
\* Callers are numbered in the order of their invocations.
Start(c) ==
    /\ pc[c] = "idle"
    /\ \A d \in Callers : d < c => pc[d] # "idle"
    /\ NoMicrotask
    /\ \E kind \in {"ping", "bulkadd", "bulkadd_into"} :
         \E n \in (IF kind = "ping" THEN {0} ELSE 0..MaxRecords) :
            /\ prog' = [prog EXCEPT ![c] = Program(kind, n, c)]
            /\ nrec' = [nrec EXCEPT ![c] = n]
            /\ Cmd(c, Program(kind, n, c)[1])
    /\ pc' = [pc EXCEPT ![c] = "await"]
    /\ step' = [step EXCEPT ![c] = 1]
    /\ startedIdle' = [startedIdle EXCEPT ![c] = Idle]
    /\ writtenAtStart' = [writtenAtStart EXCEPT ![c] = Len(written)]
    /\ submittedAtStart' = [submittedAtStart EXCEPT ![c] = Len(submitted)]
    /\ UNCHANGED <<sock, received, lastData, lastResponse, errored>>

\* the continuation after `await this.cmd(...)`: next step, or return
Resume(c) ==
    /\ pc[c] = "resolved"
    /\ IF step[c] < Len(prog[c])
       THEN /\ Cmd(c, prog[c][step[c] + 1])
            /\ step' = [step EXCEPT ![c] = step[c] + 1]
            /\ pc' = [pc EXCEPT ![c] = "await"]
       ELSE /\ pc' = [pc EXCEPT ![c] = "done"]
            /\ UNCHANGED <<clientVars, step>>
    /\ UNCHANGED <<sock, received, lastData, lastResponse, errored, prog, nrec,
                   startedIdle, writtenAtStart, submittedAtStart>>

\* a shift() that leaves the array as it was
ShiftKeeps(queue) == queue

\* what socketSendQueue.shift() leaves in the array
Shift(queue) == Tail(queue)

\* a connect callback that sends the active query again
ConnectResendsActive ==
    /\ sock = "connecting"
    /\ NoMicrotask
    /\ sock' = "open"
    /\ initialized' = TRUE
    /\ IF activeQuery # 0
       THEN written' = SendSocketMsg(written, activeQuery)
       ELSE UNCHANGED written
    /\ UNCHANGED <<activeQuery, socketSendQueue, submitted, received, lastData,
                   lastResponse, errored, callerVars>>

\* the connect callback
Connect ==
    /\ sock = "connecting"
    /\ NoMicrotask
    /\ sock' = "open"
    /\ initialized' = TRUE
    /\ IF Len(socketSendQueue) > 0
       THEN /\ activeQuery' = Head(socketSendQueue)
            /\ socketSendQueue' = Shift(socketSendQueue)
            /\ written' = SendSocketMsg(written, Head(socketSendQueue))
       ELSE UNCHANGED <<activeQuery, socketSendQueue, written>>
    /\ UNCHANGED <<submitted, received, lastData, lastResponse, errored,
                   callerVars>>

(***************************************************************************)
(* Response frames.  A buffer is a sequence of byte values; index i of the *)
(* source's Buffer is index i + 1 here.                                    *)
(***************************************************************************)
Min(a, b) == IF a < b THEN a ELSE b

\* the 8-byte big-endian length field the server puts after the success byte
LengthField(n) ==
    [i \in 1..8 |->
        IF i <= 4 THEN 0   \* lengths here are below 2^32
        ELSE (n \div (ByteValues ^ (8 - i))) % ByteValues]

\* one complete frame as the server writes it
Frame(first, payload) == <<first>> \o LengthField(Len(payload)) \o payload

\* the texts 'OK' and 'exit' as character codes
TextOK == <<79, 75>>
TextExit == <<101, 120, 105, 116>>

\* the frames the server answers with
ServerFrames == {Frame(first, p) : first \in {0, 1}, p \in {TextOK, TextExit}}

\* handleSocketData: the TectonicResponse built from the buffer.
\* subarray(8,9) holds one byte, which `new Uint32Array(...)` copies as one
\* element; subarray(9, len+12) is clamped to the buffer; a missing byte
\* makes len undefined and the slice empty.
Decode(data) ==
    LET success == Len(data) >= 1 /\ data[1] = 1
        end == IF Len(data) >= 9 THEN Min(data[9] + 12, Len(data)) ELSE 0
    IN [success |-> success, data |-> SubSeq(data, 10, end)]

\* data.toString().endsWith('exit')
EndsWithExit(data) ==
    /\ Len(data) >= 4
    /\ SubSeq(data, Len(data) - 3, Len(data)) = TextExit

\* a handler that rejects the active query when the frame reports failure
CallCbRejectsFailure(response) ==
    IF activeQuery # 0 /\ ~response.success
    THEN /\ received' = Append(received, 0)
         /\ errored' = Append(errored, activeQuery)
         /\ IF Pending(activeQuery)
            THEN pc' = [pc EXCEPT ![CallerOf(activeQuery)] = "failed"]
            ELSE UNCHANGED pc
    ELSE /\ received' = Append(received, activeQuery)
         /\ IF activeQuery # 0 /\ Pending(activeQuery)
            THEN pc' = [pc EXCEPT ![CallerOf(activeQuery)] = "resolved"]
            ELSE UNCHANGED pc
         /\ UNCHANGED errored

\* handleSocketData: `if (client.activeQuery) client.activeQuery.cb(response)`;
\* resolving the promise schedules the awaiting caller's continuation
CallCb(response) ==
    /\ received' = Append(received, activeQuery)
    /\ IF activeQuery # 0 /\ Pending(activeQuery)
       THEN pc' = [pc EXCEPT ![CallerOf(activeQuery)] = "resolved"]
       ELSE UNCHANGED pc
    /\ UNCHANGED errored

\* a handleSocketData that takes the next query with pop() and sends it
HandleSocketDataPopSend(data) ==
    /\ lastData' = data
    /\ lastResponse' = Decode(data)
    /\ CallCb(Decode(data))
    /\ sock' = IF EndsWithExit(data) THEN "destroyed" ELSE sock
    /\ IF Len(socketSendQueue) = 0
       THEN /\ activeQuery' = 0
            /\ UNCHANGED <<socketSendQueue, written>>
       ELSE /\ activeQuery' = socketSendQueue[Len(socketSendQueue)]
            /\ socketSendQueue' =
                   SubSeq(socketSendQueue, 1, Len(socketSendQueue) - 1)
            /\ written' =
                   SendSocketMsg(written, socketSendQueue[Len(socketSendQueue)])
    /\ UNCHANGED <<initialized, submitted, prog, nrec, step,
                   startedIdle, writtenAtStart, submittedAtStart>>

\* handleSocketData(data)
HandleSocketData(data) ==
    /\ lastData' = data
    /\ lastResponse' = Decode(data)
    /\ CallCb(Decode(data))
    /\ sock' = IF EndsWithExit(data) THEN "destroyed" ELSE sock
    /\ IF Len(socketSendQueue) = 0
       THEN /\ activeQuery' = 0
            /\ UNCHANGED socketSendQueue
       ELSE /\ activeQuery' = Head(socketSendQueue)
            /\ socketSendQueue' = Shift(socketSendQueue)
    /\ UNCHANGED <<initialized, written, submitted, prog, nrec, step,
                   startedIdle, writtenAtStart, submittedAtStart>>

\* the socket's 'data' event: the server answers, in order and with one
\* frame each, the commands that reached it
Data ==
    /\ sock = "open"
    /\ NoMicrotask
    /\ Len(received) < Len(written)
    /\ \E data \in ServerFrames : HandleSocketData(data)

\* an 'error' handler that also marks the client as not connected
ErrorResetsInitialized ==
    /\ sock \in {"connecting", "open"}
    /\ NoMicrotask
    /\ sock' = "destroyed"
    /\ initialized' = FALSE
    /\ IF activeQuery # 0
       THEN /\ errored' = Append(errored, activeQuery)
            /\ IF Pending(activeQuery)
               THEN pc' = [pc EXCEPT ![CallerOf(activeQuery)] = "failed"]
               ELSE UNCHANGED pc
       ELSE UNCHANGED <<errored, pc>>
    /\ UNCHANGED <<activeQuery, socketSendQueue, written, submitted, received,
                   lastData, lastResponse, prog, nrec, step, startedIdle,
                   writtenAtStart, submittedAtStart>>

\* the socket's 'error' event; net.Socket destroys itself after emitting it
Error ==
    /\ sock \in {"connecting", "open"}
    /\ NoMicrotask
    /\ sock' = "destroyed"
    /\ IF activeQuery # 0
       THEN /\ errored' = Append(errored, activeQuery)
            /\ IF Pending(activeQuery)
               THEN pc' = [pc EXCEPT ![CallerOf(activeQuery)] = "failed"]
               ELSE UNCHANGED pc
       ELSE UNCHANGED <<errored, pc>>
    /\ UNCHANGED <<clientVars, received, lastData, lastResponse, prog, nrec,
                   step, startedIdle, writtenAtStart, submittedAtStart>>

\* a 'close' handler that starts a new connection attempt
CloseReconnects ==
    /\ sock \in {"open", "destroyed"}
    /\ NoMicrotask
    /\ sock' = "connecting"
    /\ initialized' = FALSE
    /\ UNCHANGED <<activeQuery, socketSendQueue, written, submitted, received,
                   lastData, lastResponse, errored, callerVars>>

\* the socket's 'close' event: the peer ended the stream, or the socket was
\* destroyed by an error or by exit()
Close ==
    /\ sock \in {"open", "destroyed"}
    /\ NoMicrotask
    /\ sock' = "closed"
    /\ UNCHANGED <<clientVars, received, lastData, lastResponse, errored,
                   callerVars>>

Next ==
    \/ \E c \in Callers : Start(c)
    \/ \E c \in Callers : Resume(c)
    \/ Connect
    \/ Data
    \/ Error
    \/ Close

Spec == Init /\ [][Next]_vars

TypeOK ==
    /\ initialized \in BOOLEAN
    /\ activeQuery \in 0..MaxQueries
    /\ sock \in {"connecting", "open", "destroyed", "closed"}
    /\ Len(submitted) <= MaxQueries
    /\ \A c \in Callers : pc[c] \in {"idle", "await", "resolved", "done", "failed"}
(***************************************************************************)
(* Properties                                                              *)
(***************************************************************************)
Occurrences(s, x) == Cardinality({i \in DOMAIN s : s[i] = x})

\* a step that is one run of handleSocketData
IsDataStep == Len(received') = Len(received) + 1

\* a step in which cmd() builds a query
IsCmdStep == Len(submitted') = Len(submitted) + 1

\* C1: the k-th response frame received is delivered to the completion
\* handle of the query whose command text was the k-th written to the
\* transport, also for commands submitted before the connect callback.
ResponseMatching ==
    \A k \in DOMAIN received : received[k] = written[k]

\* C2: at most one command has been written to the transport without its
\* response having been received, in every reachable state.
SingleActiveQuery ==
    Len(written) - Len(received) <= 1

\* C3: a command submitted before the connect callback fired is not written
\* while the client is still connecting, waits in the send queue, is written
\* at most once, and its completion handle stays reachable from the queue or
\* the active slot until it fires.
QueueWhileConnecting ==
    \A q \in DOMAIN submitted :
        submitted[q].early =>
            /\ ~initialized =>
                   q \notin Range(written) /\ q \in Range(socketSendQueue)
            /\ Occurrences(written, q) <= 1
            /\ Pending(q) => q = activeQuery \/ q \in Range(socketSendQueue)

\* C4: when a response frame completes the active query on a connected
\* client and the send queue is non-empty, the head of the queue is removed,
\* becomes the active query and is written in that same step; a query is
\* never active without its text having been written.
QueueAdvance ==
    /\ [][(IsDataStep /\ initialized /\ activeQuery # 0
              /\ Len(socketSendQueue) > 0)
           => /\ activeQuery' = Head(socketSendQueue)
              /\ socketSendQueue' = Tail(socketSendQueue)
              /\ written' = Append(written, Head(socketSendQueue))]_vars
    /\ [](activeQuery # 0 => activeQuery \in Range(written))

SoleBulkCaller(c) ==
    /\ pc[c] # "idle"
    /\ IsOpener(prog[c][1])
    /\ startedIdle[c]
    /\ \A q \in (submittedAtStart[c] + 1)..Len(submitted) : CallerOf(q) = c

BulkOpen(b) ==
    /\ pc[b] \in {"await", "resolved"}
    /\ IsOpener(prog[b][1])

IsErrorStep ==
    /\ sock \in {"connecting", "open"}
    /\ sock' = "destroyed"
    /\ received' = received

\* C8: when the 'error' event fires while a query is active, its onError is
\* invoked, it stops being the active query, and the head of a non-empty send
\* queue is sent and becomes active.
TransportErrorHandling ==
    [][(IsErrorStep /\ activeQuery # 0)
        => /\ errored' = Append(errored, activeQuery)
           /\ activeQuery' # activeQuery
           /\ Len(socketSendQueue) > 0 =>
                 /\ activeQuery' = Head(socketSendQueue)
                 /\ socketSendQueue' = Tail(socketSendQueue)
                 /\ written' = Append(written, Head(socketSendQueue))
           /\ Len(socketSendQueue) = 0 => activeQuery' = 0]_vars

\* the number of times a completion handle of query q was invoked
Completions(q) == Occurrences(received, q) + Occurrences(errored, q)

\* C9: exactly one completion handle of every query is invoked, exactly
\* once: no query is completed twice, and a query not yet completed is still
\* held by the active slot or the send queue.
ExactlyOnceCompletion ==
    \A q \in DOMAIN submitted :
        /\ Completions(q) <= 1
        /\ Completions(q) = 0 =>
               q = activeQuery \/ q \in Range(socketSendQueue)

\* C10: once the 'close' event has fired while a query was active, that
\* query's onError has been invoked.
CloseWhileActive ==
    (sock = "closed" /\ activeQuery # 0) => activeQuery \in Range(errored)
\* C11: after the 'close' event the client is no longer connected, and a
\* command submitted from then on is rejected or queued: it is not written
\* to the closed transport and does not become the active query.
SubmitAfterClose ==
    /\ [](sock = "closed" => ~initialized)
    /\ [][(IsCmdStep /\ sock = "closed")
           => /\ written' = written
              /\ activeQuery' = activeQuery
              /\ \/ socketSendQueue' = Append(socketSendQueue, Len(submitted'))
                 \/ Len(submitted') \in Range(errored')]_vars
\* C12: a frame whose first byte is not 1 is handed to the active query's cb
\* as {success: false, data}; its onError is not invoked, its caller resumes
\* normally, and the active slot and the send queue move on as for any frame.
ProtocolFailureIsNormal ==
    [][(IsDataStep /\ activeQuery # 0 /\ lastData'[1] # 1)
        => /\ received' = Append(received, activeQuery)
           /\ lastResponse' = [success |-> FALSE,
                               data |-> SubSeq(lastData', 10, Len(lastData'))]
           /\ errored' = errored
           /\ pc'[CallerOf(activeQuery)] = "resolved"
           /\ activeQuery' = IF Len(socketSendQueue) = 0 THEN 0
                             ELSE Head(socketSendQueue)
           /\ socketSendQueue' = IF Len(socketSendQueue) = 0 THEN <<>>
                                 ELSE Tail(socketSendQueue)
           /\ written' = written]_vars

\* C12 witness: a failure frame was delivered to a query through cb while
\* another query waited in the queue, and its caller went on to return
ProtocolFailureWitness ==
    /\ Len(received) > 0
    /\ received[Len(received)] # 0
    /\ ~lastResponse.success
    /\ lastData[1] = 0
    /\ errored = <<>>
    /\ pc[CallerOf(received[Len(received)])] = "done"
    /\ activeQuery # 0
(***************************************************************************)
(* Frame decoding, over frames whose declared length goes past one byte.   *)
(***************************************************************************)
DecodeLengths == (0..3) \cup (254..MaxPayloadLen)

\* payload byte i of the test frames: printable ASCII, cycling
PayloadByte(i) == 32 + (i % 95)

\* complete frames: success byte, length field, payload of that length
WideFrames ==
    {Frame(first, [i \in 1..n |-> PayloadByte(i)]) :
        first \in {0, 1, 2}, n \in DecodeLengths}

\* the 'data' event delivering the server's first answer
DataWide ==
    /\ sock = "open"
    /\ NoMicrotask
    /\ Len(received) < Len(written)
    /\ Len(received) = 0
    /\ \E data \in WideFrames : HandleSocketData(data)

NextDecode ==
    \/ \E c \in Callers : Start(c)
    \/ \E c \in Callers : Resume(c)
    \/ Connect
    \/ DataWide

SpecDecode == Init /\ [][NextDecode]_vars

RECURSIVE BigEndian(_)
\* the unsigned integer a big-endian byte sequence stands for
BigEndian(bytes) ==
    IF bytes = <<>> THEN 0
    ELSE BigEndian(SubSeq(bytes, 1, Len(bytes) - 1)) * ByteValues
            + bytes[Len(bytes)]

\* the length a frame declares in bytes 1..8 of the buffer
DeclaredLength(data) == BigEndian(SubSeq(data, 2, 9))

\* the buffer holds exactly one complete frame
CompleteFrame(data) ==
    /\ Len(data) >= 9
    /\ Len(data) = 9 + DeclaredLength(data)

\* C13: for a buffer holding exactly one complete frame, handleSocketData
\* yields success = (first byte = 1) and data = exactly the declared payload
\* bytes, one character per byte, also for lengths that need two bytes.
FrameDecodeCorrect ==
    (Len(received) > 0 /\ CompleteFrame(lastData))
        => lastResponse =
              [success |-> lastData[1] = 1,
               data |-> SubSeq(lastData, 10, 9 + DeclaredLength(lastData))]
(***************************************************************************)
(* Progress: the socket stays open (no 'error', no 'close', no frame that  *)
(* ends in 'exit'), the connection succeeds, the server answers every      *)
(* command that reached it, and pending continuations run.                 *)
(***************************************************************************)
DataOpen ==
    /\ sock = "open"
    /\ NoMicrotask
    /\ Len(received) < Len(written)
    /\ \E data \in {f \in ServerFrames : ~EndsWithExit(f)} :
          HandleSocketData(data)

NextLive ==
    \/ \E c \in Callers : Start(c)
    \/ \E c \in Callers : Resume(c)
    \/ Connect
    \/ DataOpen

SpecLive ==
    /\ Init
    /\ [][NextLive]_vars
    /\ WF_vars(Connect)
    /\ WF_vars(DataOpen)
    /\ \A c \in Callers : WF_vars(Resume(c))

\* C14: on a client that was connected before any command was submitted,
\* whose socket stays open and whose server answers every command written,
\* every command submitted with cmd() eventually has its promise settled.
ProgressForAllCallers ==
    \A q \in QueryIds :
        (q \in DOMAIN submitted /\ ~submitted[1].early) ~> ~Pending(q)
\* C15: an 'error' event that fires while no query is active is dropped: the
\* active slot, the send queue, the client's connection flag and the bytes
\* written are unchanged and no completion handle is invoked.
ErrorWithoutActiveQuery ==
    [][(IsErrorStep /\ activeQuery = 0)
        => UNCHANGED <<activeQuery, socketSendQueue, initialized, written,
                       submitted, received, errored, pc>>]_vars

\* C15 witness: the socket was destroyed by an 'error' event that found no
\* active query, on a client that had already completed a command
ErrorWithoutActiveQueryWitness ==
    /\ sock = "destroyed"
    /\ ~EndsWithExit(lastData)
    /\ Len(received) > 0
    /\ activeQuery = 0
    /\ errored = <<>>
    /\ initialized
\* the socket has seen an 'error' or a 'close' event (or exit())
SocketOver == sock \in {"destroyed", "closed"}

\* C16: the connection is opened once, at construction: the socket never
\* goes back to connecting or open after an error or close, the client never
\* goes back to not-initialized, and no command already written is written
\* again after an error or close.
NoReconnectOrRetry ==
    [][/\ sock # "connecting" => sock' # "connecting"
       /\ SocketOver => SocketOver'
       /\ initialized => initialized'
       /\ SocketOver =>
             /\ SubSeq(written', 1, Len(written)) = written
             /\ \A i \in (Len(written) + 1)..Len(written') :
                   written'[i] \notin Range(written)]_vars

\* C16 witness: the socket closed after an error that failed a query, and a
\* command was written since
NoReconnectOrRetryWitness ==
    /\ sock = "closed"
    /\ errored # <<>>
    /\ \E i \in DOMAIN written : written[i] > errored[1]

\* C17: the command text of each submitted query is written to the
\* transport at most once.
NoDuplicateSends ==
    \A q \in DOMAIN submitted : Occurrences(written, q) <= 1

\* C17 witness: commands were written before the connect callback, after it
\* and after responses, and one is still unwritten
NoDuplicateSendsWitness ==
    /\ initialized
    /\ Len(submitted) >= 1
    /\ submitted[1].early
    /\ Len(received) >= 2
    /\ Len(written) >= 3
    /\ Len(submitted) > Len(written)

\* C18: if the send queue is non-empty the active slot is non-empty, and no
\* query is in the send queue and in the active slot at once.
QueueActiveSlot ==
    /\ Len(socketSendQueue) > 0 => activeQuery # 0
    /\ activeQuery \notin Range(socketSendQueue)
    /\ \A i, j \in DOMAIN socketSendQueue :
          i # j => socketSendQueue[i] # socketSendQueue[j]

\* C18 witness: a query was moved from the queue to the active slot while
\* others are still queued
QueueActiveSlotWitness ==
    /\ Len(socketSendQueue) >= 1
    /\ activeQuery # 0
    /\ activeQuery \notin Range(written)

\* C19: while the connect callback has not fired the send queue is empty,
\* so the callback pops and sends nothing.
QueueEmptyBeforeConnect ==
    /\ [](~initialized => socketSendQueue = <<>>)
    /\ [][(~initialized /\ initialized')
           => UNCHANGED <<activeQuery, socketSendQueue, written>>]_vars

\* C19 witness: the connect callback has just run after two commands were
\* submitted while connecting
QueueEmptyBeforeConnectWitness ==
    /\ initialized
    /\ Len(submitted) >= 2
    /\ \A q \in DOMAIN submitted : submitted[q].early
    /\ received = <<>>
====
